---- MODULE Spec2Model ----
(***************************************************************************)
(* Model of the habit tracker server (src/server/index.js) and of the      *)
(* streak / date helpers it shares with the clients (src/unnamed/part_000).*)
(*                                                                         *)
(* Strings that the code inspects character by character (tenant names,    *)
(* ISO dates) are sequences of one-character strings; other texts (habit   *)
(* names, notes) are TLA+ strings.  A JavaScript Date is a record          *)
(* [day, tod]: the local calendar day counted from 1970-01-01 and a        *)
(* time of day (0 is local midnight).                                      *)
(***************************************************************************)
EXTENDS Integers, Sequences, FiniteSets, TLC

VARIABLES
    databases,  \* the process-wide Map tenant -> in-memory database handle
    files,      \* the databases directory: tenant -> contents of <tenant>.db
    clock,      \* Date.now(), milliseconds
    today,      \* the local calendar day of "new Date()"
    last,       \* the last request served and the response sent
    pre,        \* databases and files as they were when that request arrived
    page,       \* the page open in the browser: its habits, its grid, editingHabitId and
                \* its handlers suspended at an await
    inflight,   \* the continuations waiting to run: requests suspended at an await
    sqlReady,   \* whether the initSqlJs() promise has resolved
    handle      \* the database handle the route of the last request worked on, before
                \* and after, and whether it is the handle the cache holds

vars == <<databases, files, clock, today, last, pre, page, inflight, sqlReady, handle>>

\* ------------------------------------------------------------------ bounds

MaxHabits == 2        \* habits ever created per tenant (AUTOINCREMENT ids 1..MaxHabits)
MaxClock == 1         \* largest value Date.now() takes
MaxOrders == 1        \* longest habitOrders array of a reorder request
MaxTenantLen == 2     \* longest tenant string given to the resolver
MaxExtra == 1         \* log rows beyond the 90-row window in a log history
IsoHabits == 1        \* habits ever created per tenant when two tenants are served
GridSpan == 70        \* days before Day0 on which a grid is built

\* ------------------------------------------------------------ JS helpers

NULL == "NULL"             \* SQL NULL / JavaScript null
Undefined == "undefined"   \* a missing JSON field

Max(S) == CHOOSE x \in S : \A y \in S : y <= x

Digits == <<"0", "1", "2", "3", "4", "5", "6", "7", "8", "9">>

RECURSIVE NumToString(_)
\* String(n) for a non-negative integer
NumToString(n) ==
    IF n < 10 THEN <<Digits[n + 1]>>
    ELSE NumToString(n \div 10) \o <<Digits[(n % 10) + 1]>>

RECURSIVE padStart(_, _, _)
padStart(s, len, ch) ==
    IF Len(s) >= len THEN s ELSE padStart(<<ch>> \o s, len, ch)

\* code unit of the characters an ISO date holds
CharCode ==
    ("-" :> 45) @@ ("0" :> 48) @@ ("1" :> 49) @@ ("2" :> 50) @@ ("3" :> 51) @@ ("4" :> 52)
        @@ ("5" :> 53) @@ ("6" :> 54) @@ ("7" :> 55) @@ ("8" :> 56) @@ ("9" :> 57)

\* a < b for two strings compared code unit by code unit (the order of
\* localeCompare and of SQLite's BINARY collation on these characters)
StrLess(a, b) ==
    \/ \E k \in 1..(IF Len(a) < Len(b) THEN Len(a) ELSE Len(b)) :
          /\ a[k] # b[k]
          /\ SubSeq(a, 1, k - 1) = SubSeq(b, 1, k - 1)
          /\ CharCode[a[k]] < CharCode[b[k]]
    \/ Len(a) < Len(b) /\ a = SubSeq(b, 1, Len(a))

\* JavaScript truthiness of a number (the completed column holds 0 or 1)
Truthy(v) == v # 0

\* JavaScript truthiness of a text field of a request (name, description, notes)
TruthyText(s) == s \notin {"", NULL, Undefined}

\* --------------------------------------------------------------- calendar

\* Date.getFullYear / getMonth()+1 / getDate of a local day number
CivilFromDays(n) ==
    LET z == n + 719468
        era == z \div 146097
        doe == z - era * 146097
        yoe == (doe - doe \div 1460 + doe \div 36524 - doe \div 146096) \div 365
        doy == doe - (365 * yoe + yoe \div 4 - yoe \div 100)
        mp == (5 * doy + 2) \div 153
        d == doy - (153 * mp + 2) \div 5 + 1
        m == IF mp < 10 THEN mp + 3 ELSE mp - 9
        y == yoe + era * 400 + (IF m <= 2 THEN 1 ELSE 0)
    IN  [year |-> y, month |-> m, date |-> d]

NewDate == [day |-> today, tod |-> 1]          \* new Date(): some time today
setHours0(date) == [date EXCEPT !.tod = 0]     \* date.setHours(0, 0, 0, 0)
\* date.setDate(date.getDate() - k)
setDateBack(date, k) == [date EXCEPT !.day = @ - k]

formatDate(date) ==
    LET c == CivilFromDays(date.day)
    IN  NumToString(c.year) \o <<"-">> \o padStart(NumToString(c.month), 2, "0")
            \o <<"-">> \o padStart(NumToString(c.date), 2, "0")

\* common.getDaysAgo(days), with "new Date()" giving now
getDaysAgo(now, days) == setDateBack(now, days)

MobilePast == 2
DesktopPast == 6
SSRPast == 6

getGridDates_skipsYesterday(now, past) ==
    [k \in 1..past |-> getDaysAgo(now, past + 2 - k)] \o <<setHours0(now)>>

\* the loop "for (let i = past; i >= 1; i--)" pushing the day i days ago, then
\* today at midnight
getGridDates(now, past) ==
    [k \in 1..past |-> getDaysAgo(now, past + 1 - k)] \o <<setHours0(now)>>

getGridDatesMobile(now) == getGridDates(now, MobilePast)
getGridDatesDesktop(now) == getGridDates(now, DesktopPast)
getGridDatesSSR(now) == getGridDates(now, SSRPast)

\* ---------------------------------------------------------- streak logic

\* logs.find(l => l.date === dateStr): <<the first match>>, or <<>> for undefined
FindByDate(logs, dateStr) ==
    LET idx == {i \in 1..Len(logs) : logs[i].date = dateStr}
    IN  IF idx = {} THEN <<>> ELSE <<logs[CHOOSE i \in idx : \A j \in idx : i <= j]>>

isCompletedOnDate_ignoresFlag(logs, date) == FindByDate(logs, formatDate(date)) # <<>>

\* log && log.completed
isCompletedOnDate(logs, date) ==
    LET log == FindByDate(logs, formatDate(date))
    IN  log # <<>> /\ Truthy(log[1].completed)

\* rows sorted by date descending, rows of equal date in their given order:
\* each row goes to the place after the rows that sort before it
SortByDateDesc(rows) ==
    LET n == Len(rows)
        before(j, i) ==
            \/ StrLess(rows[i].date, rows[j].date)
            \/ rows[i].date = rows[j].date /\ j < i
        places == {<<1 + Cardinality({j \in 1..n : before(j, i)}), i>> : i \in 1..n}
    IN  [k \in 1..n |-> rows[(CHOOSE p \in places : p[1] = k)[2]]]

ScanDays == 90

\* one pass through the body of the for loop of calculateCurrentStreak; done is
\* set by its break
StreakStep(sortedLogs, s) ==
    IF s.done THEN s
    ELSE LET log == FindByDate(sortedLogs, formatDate(s.checkDate))
         IN  IF log # <<>> /\ Truthy(log[1].completed)
             THEN [s EXCEPT !.streak = @ + 1, !.checkDate = setDateBack(@, 1)]
             ELSE [s EXCEPT !.done = TRUE]

RECURSIVE StreakLoop(_, _, _)
\* n passes through the loop body, from the loop state s
StreakLoop(sortedLogs, s, n) ==
    IF n = 0 THEN s
    ELSE IF n = 1 THEN StreakStep(sortedLogs, s)
    ELSE LET half == StreakLoop(sortedLogs, s, n \div 2)
         IN  IF half.done THEN half ELSE StreakLoop(sortedLogs, half, n - (n \div 2))

calculateCurrentStreak_oneMoreDay(logs, now) ==
    IF Len(logs) = 0 THEN 0
    ELSE LET sortedLogs == SortByDateDesc(SelectSeq(logs, LAMBDA l : Truthy(l.completed)))
         IN  StreakLoop(sortedLogs,
                        [streak |-> 0, checkDate |-> setHours0(now), done |-> FALSE],
                        ScanDays + 1).streak

\* calculateCurrentStreak with "new Date()" falling on the local day of now
calculateCurrentStreak(logs, now) ==
    IF Len(logs) = 0 THEN 0
    ELSE LET sortedLogs == SortByDateDesc(SelectSeq(logs, LAMBDA l : Truthy(l.completed)))
         IN  StreakLoop(sortedLogs,
                        [streak |-> 0, checkDate |-> setHours0(now), done |-> FALSE],
                        ScanDays).streak

\* ---- the copies of the shared client module: formatDate, isCompletedOnDate, calculateCurrentStreak
formatDateCommon(date) ==
    LET c == CivilFromDays(date.day)
    IN  NumToString(c.year) \o <<"-">> \o padStart(NumToString(c.month), 2, "0")
            \o <<"-">> \o padStart(NumToString(c.date), 2, "0")

isCompletedOnDateCommon(logs, date) ==
    LET log == FindByDate(logs, formatDateCommon(date))
    IN  log # <<>> /\ Truthy(log[1].completed)

StreakStepCommon(sortedLogs, s) ==
    IF s.done THEN s
    ELSE LET log == FindByDate(sortedLogs, formatDateCommon(s.checkDate))
         IN  IF log # <<>> /\ Truthy(log[1].completed)
             THEN [s EXCEPT !.streak = @ + 1, !.checkDate = setDateBack(@, 1)]
             ELSE [s EXCEPT !.done = TRUE]

RECURSIVE StreakLoopCommon(_, _, _)
StreakLoopCommon(sortedLogs, s, n) ==
    IF n = 0 THEN s
    ELSE IF n = 1 THEN StreakStepCommon(sortedLogs, s)
    ELSE LET half == StreakLoopCommon(sortedLogs, s, n \div 2)
         IN  IF half.done THEN half ELSE StreakLoopCommon(sortedLogs, half, n - (n \div 2))

calculateCurrentStreakCommon(logs, now) ==
    IF Len(logs) = 0 THEN 0
    ELSE LET sortedLogs == SortByDateDesc(SelectSeq(logs, LAMBDA l : Truthy(l.completed)))
         IN  StreakLoopCommon(sortedLogs,
                        [streak |-> 0, checkDate |-> setHours0(now), done |-> FALSE],
                        ScanDays).streak

\* ---- the copies of the standalone main.js: formatDate, isCompletedOnDate, calculateCurrentStreak
formatDateMain(date) ==
    LET c == CivilFromDays(date.day)
    IN  NumToString(c.year) \o <<"-">> \o padStart(NumToString(c.month), 2, "0")
            \o <<"-">> \o padStart(NumToString(c.date), 2, "0")

isCompletedOnDateMain(logs, date) ==
    LET log == FindByDate(logs, formatDateMain(date))
    IN  log # <<>> /\ Truthy(log[1].completed)

StreakStepMain(sortedLogs, s) ==
    IF s.done THEN s
    ELSE LET log == FindByDate(sortedLogs, formatDateMain(s.checkDate))
         IN  IF log # <<>> /\ Truthy(log[1].completed)
             THEN [s EXCEPT !.streak = @ + 1, !.checkDate = setDateBack(@, 1)]
             ELSE [s EXCEPT !.done = TRUE]

RECURSIVE StreakLoopMain(_, _, _)
StreakLoopMain(sortedLogs, s, n) ==
    IF n = 0 THEN s
    ELSE IF n = 1 THEN StreakStepMain(sortedLogs, s)
    ELSE LET half == StreakLoopMain(sortedLogs, s, n \div 2)
         IN  IF half.done THEN half ELSE StreakLoopMain(sortedLogs, half, n - (n \div 2))

calculateCurrentStreakMain_fromYesterday(logs, now) ==
    IF Len(logs) = 0 THEN 0
    ELSE LET sortedLogs == SortByDateDesc(SelectSeq(logs, LAMBDA l : Truthy(l.completed)))
         IN  StreakLoopMain(sortedLogs,
                            [streak |-> 0, checkDate |-> setDateBack(setHours0(now), 1),
                             done |-> FALSE],
                            ScanDays).streak

calculateCurrentStreakMain(logs, now) ==
    IF Len(logs) = 0 THEN 0
    ELSE LET sortedLogs == SortByDateDesc(SelectSeq(logs, LAMBDA l : Truthy(l.completed)))
         IN  StreakLoopMain(sortedLogs,
                        [streak |-> 0, checkDate |-> setHours0(now), done |-> FALSE],
                        ScanDays).streak

\* ---------------------------------------------------------- grid renderers

\* the day-cell of habit for dates[idx]: its data-toggle and data-date attributes,
\* and whether it carries the classes "today" and "completed"
DayCell(habit, dates, idx) ==
    [habit_id |-> habit.id,
     date |-> formatDate(dates[idx]),
     today |-> (idx = Len(dates)),
     completed |-> isCompletedOnDate(habit.logs, dates[idx])]

\* dates.forEach((date, idx) => ...) for one habit
DayCells(habit, dates) == [idx \in 1..Len(dates) |-> DayCell(habit, dates, idx)]

\* the text of the streak cell: ${streak > 0 ? streak : ''}
StreakCell(logs, now) ==
    LET streak == calculateCurrentStreak(logs, now)
    IN  IF streak > 0 THEN <<streak>> ELSE <<>>

\* the texts in the habit-name-cell the pages draw: the name
NameCell(habit) == <<habit.name>>

\* the texts in the habit-name-cell the server draws: the habit-title and, when
\* the description is truthy, the habit-description
NameCellSSR(habit) ==
    <<habit.name>> \o (IF TruthyText(habit.description) THEN <<habit.description>> ELSE <<>>)

\* renderHabitsGrid of the mobile page, after the logs were fetched: the
\* empty-state block, or a habit-row per habit (no streak cell)
RenderGridMobile(habitsWithLogs, now) ==
    [empty |-> habitsWithLogs = <<>>,
     rows |-> [i \in 1..Len(habitsWithLogs) |->
                  [habit_id |-> habitsWithLogs[i].id, name |-> habitsWithLogs[i].name,
                   info |-> NameCell(habitsWithLogs[i]),
                   cells |-> DayCells(habitsWithLogs[i], getGridDatesMobile(now)),
                   streak |-> <<>>]]]

\* renderHabitsGrid of the desktop page, after the logs were fetched or reused
RenderGridDesktop(habitsWithLogs, now) ==
    [empty |-> habitsWithLogs = <<>>,
     rows |-> [i \in 1..Len(habitsWithLogs) |->
                  [habit_id |-> habitsWithLogs[i].id, name |-> habitsWithLogs[i].name,
                   info |-> NameCell(habitsWithLogs[i]),
                   cells |-> DayCells(habitsWithLogs[i], getGridDatesDesktop(now)),
                   streak |-> StreakCell(habitsWithLogs[i].logs, now)]]]

\* renderHabitsGridHTML of the server
renderHabitsGridHTML(habitsWithLogs, now) ==
    [empty |-> habitsWithLogs = <<>>,
     rows |-> [i \in 1..Len(habitsWithLogs) |->
                  [habit_id |-> habitsWithLogs[i].id, name |-> habitsWithLogs[i].name,
                   info |-> NameCellSSR(habitsWithLogs[i]),
                   cells |-> DayCells(habitsWithLogs[i], getGridDatesSSR(now)),
                   streak |-> StreakCell(habitsWithLogs[i].logs, now)]]]

\* -------------------------------------------------------- tenant resolver

LowerLetters ==
    {"a", "b", "c", "d", "e", "f", "g", "h", "i", "j", "k", "l", "m",
     "n", "o", "p", "q", "r", "s", "t", "u", "v", "w", "x", "y", "z"}
UpperLetters ==
    {"A", "B", "C", "D", "E", "F", "G", "H", "I", "J", "K", "L", "M",
     "N", "O", "P", "Q", "R", "S", "T", "U", "V", "W", "X", "Y", "Z"}
DigitChars == {Digits[i] : i \in 1..10}

\* the characters the class [^a-zA-Z0-9-_] does not match
KeptChar_noUnderscore(c) == c \in LowerLetters \cup UpperLetters \cup DigitChars \cup {"-"}

KeptChar(c) == c \in LowerLetters \cup UpperLetters \cup DigitChars \cup {"-", "_"}

\* tenant.replace(/[^a-zA-Z0-9-_]/g, '')
Sanitize(tenant) == SelectSeq(tenant, KeptChar)

EmptyDB == [habits |-> <<>>, logs |-> <<>>, seqHabits |-> 0, seqLogs |-> 0]

FilePath_oneFile(safeTenant) == <<"h", "a", "b", "i", "t", "s", ".", "d", "b">>

\* `${safeTenant}.db` in the databases directory
FilePath(safeTenant) == safeTenant \o <<".", "d", "b">>

\* saveTenantDB: the handle cached for tenant is exported to its path
saveTenantDB(dbs, fls, tenant) ==
    IF tenant \notin DOMAIN dbs THEN fls
    ELSE [p \in DOMAIN fls \cup {FilePath(tenant)} |->
             IF p = FilePath(tenant) THEN dbs[tenant] ELSE fls[p]]

\* the handle getTenantDB builds after "await initSqlJs()": the tenant's file if
\* it exists, otherwise a new database with the schema
OpenDatabase(fls, safeTenant) ==
    IF FilePath(safeTenant) \in DOMAIN fls THEN fls[FilePath(safeTenant)] ELSE EmptyDB

\* the message getTenantDB throws before it looks into the cache (NULL if none)
TenantError(tenant) ==
    IF tenant = <<>> THEN "Invalid tenant name"
    ELSE IF Sanitize(tenant) # tenant
    THEN "Tenant name can only contain letters, numbers, hyphens, and underscores"
    ELSE NULL

\* getTenantDB run to completion on the cache dbs and the directory fls:
\* error is the message thrown (NULL if none); dbs and fls are the cache and the
\* directory afterwards
getTenantDB(dbs, fls, tenant) ==
    IF TenantError(tenant) # NULL
    THEN [error |-> TenantError(tenant), dbs |-> dbs, fls |-> fls]
    ELSE IF Sanitize(tenant) \in DOMAIN dbs
    THEN [error |-> NULL, dbs |-> dbs, fls |-> fls]
    ELSE LET safeTenant == Sanitize(tenant)
             dbs2 == (safeTenant :> OpenDatabase(fls, safeTenant)) @@ dbs
         IN  [error |-> NULL, dbs |-> dbs2, fls |-> saveTenantDB(dbs2, fls, safeTenant)]

\* ------------------------------------------------------------ habit store

\* a handler's outcome: the database afterwards, the HTTP status, the JSON body,
\* and whether saveTenantDB was reached
Outcome(db, status, body, saved) ==
    [db |-> db, status |-> status, body |-> body, saved |-> saved]

HabitBefore_oldestFirst(a, b) ==
    \/ a.order_position < b.order_position
    \/ a.order_position = b.order_position /\ a.created_at < b.created_at

\* a sorts before b under ORDER BY order_position ASC, created_at DESC
HabitBefore(a, b) ==
    \/ a.order_position < b.order_position
    \/ a.order_position = b.order_position /\ a.created_at > b.created_at

RECURSIVE InsertHabitSorted(_, _)
InsertHabitSorted(sorted, row) ==
    IF sorted = <<>> THEN <<row>>
    ELSE IF HabitBefore(row, Head(sorted)) THEN <<row>> \o sorted
    ELSE <<Head(sorted)>> \o InsertHabitSorted(Tail(sorted), row)

RECURSIVE SelectHabitsOrdered(_)
\* SELECT * FROM habits ORDER BY order_position ASC, created_at DESC
\* (rows that tie on both keys stay in rowid order)
SelectHabitsOrdered(rows) ==
    IF rows = <<>> THEN <<>>
    ELSE InsertHabitSorted(SelectHabitsOrdered(SubSeq(rows, 1, Len(rows) - 1)),
                           rows[Len(rows)])

LogLimit == 90

RECURSIVE Reverse(_)
Reverse(q) == IF q = <<>> THEN <<>> ELSE Append(Reverse(Tail(q)), Head(q))

SelectLogsOf_oldestFirst(db, id) ==
    LET rows == Reverse(SortByDateDesc(SelectSeq(db.logs, LAMBDA l : l.habit_id = id)))
    IN  SubSeq(rows, 1, IF Len(rows) < LogLimit THEN Len(rows) ELSE LogLimit)

\* SELECT * FROM habit_logs WHERE habit_id = ? ORDER BY date DESC LIMIT 90
SelectLogsOf(db, id) ==
    LET rows == SortByDateDesc(SelectSeq(db.logs, LAMBDA l : l.habit_id = id))
    IN  SubSeq(rows, 1, IF Len(rows) < LogLimit THEN Len(rows) ELSE LogLimit)

\* GET /api/habits
ListHabits(db) == Outcome(db, 200, SelectHabitsOrdered(db.habits), FALSE)

\* { ...habit, logs }
WithLogs(habit, logs) ==
    [id |-> habit.id, name |-> habit.name, description |-> habit.description,
     created_at |-> habit.created_at, order_position |-> habit.order_position,
     logs |-> logs]

\* GET /api/habits/:id
GetHabit(db, id) ==
    LET habitResult == SelectSeq(db.habits, LAMBDA h : h.id = id)
    IN  IF habitResult = <<>>
        THEN Outcome(db, 404, [error |-> "Habit not found"], FALSE)
        ELSE Outcome(db, 200, WithLogs(habitResult[1], SelectLogsOf(db, id)), FALSE)

NewOrder_countsRows(db) == Len(db.habits)

\* SELECT MAX(order_position) FROM habits, then newOrder
NewOrder(db) ==
    IF db.habits = <<>> THEN 0
    ELSE Max({db.habits[i].order_position : i \in 1..Len(db.habits)}) + 1

\* POST /api/habits, the check made before the tenant is resolved
CreateCheck(name) == IF ~TruthyText(name) THEN "Name is required" ELSE NULL

\* POST /api/habits, after the check
CreateHabit(db, name, description, now) ==
    LET id == db.seqHabits + 1
        row == [id |-> id, name |-> name,
                description |-> IF TruthyText(description) THEN description ELSE "",
                created_at |-> now, order_position |-> NewOrder(db)]
    IN  Outcome([db EXCEPT !.habits = Append(@, row), !.seqHabits = id], 200,
                [id |-> id, name |-> name, description |-> description,
                 order_position |-> row.order_position], TRUE)

UpdateHabit_everyHabit(db, id, name, description) ==
    IF name = Undefined
    THEN Outcome(db, 400, [error |-> "Wrong API use"], FALSE)
    ELSE Outcome([db EXCEPT !.habits =
                      [i \in 1..Len(@) |->
                          [@[i] EXCEPT !.name = name,
                                    !.description =
                                        IF TruthyText(description) THEN description ELSE ""]]],
                 200, [success |-> TRUE], TRUE)

\* PUT /api/habits/:id  (binding an undefined name throws)
UpdateHabit(db, id, name, description) ==
    IF name = Undefined
    THEN Outcome(db, 400, [error |-> "Wrong API use"], FALSE)
    ELSE Outcome([db EXCEPT !.habits =
                      [i \in 1..Len(@) |->
                          IF @[i].id = id
                          THEN [@[i] EXCEPT !.name = name,
                                    !.description =
                                        IF TruthyText(description) THEN description ELSE ""]
                          ELSE @[i]]],
                 200, [success |-> TRUE], TRUE)

\* the connection never runs PRAGMA foreign_keys = ON, and SQLite leaves foreign
\* keys unenforced unless it is run
ForeignKeys == FALSE

\* DELETE FROM habits WHERE id = ?
DeleteRows(db, id) ==
    [db EXCEPT !.habits = SelectSeq(@, LAMBDA h : h.id # id),
               !.logs = IF ForeignKeys THEN SelectSeq(@, LAMBDA l : l.habit_id # id) ELSE @]

\* DELETE /api/habits/:id
DeleteHabit(db, id) == Outcome(DeleteRows(db, id), 200, [success |-> TRUE], TRUE)

\* UPDATE habits SET order_position = ? WHERE id = ?
SetOrder(db, id, order_position) ==
    [db EXCEPT !.habits =
        [i \in 1..Len(@) |->
            IF @[i].id = id THEN [@[i] EXCEPT !.order_position = order_position] ELSE @[i]]]

ReorderLoop_rollsBack(db, habitOrders) ==
    IF \E k \in 1..Len(habitOrders) : habitOrders[k].order_position = <<>>
    THEN Outcome(db, 400, [error |-> "Wrong API use"], FALSE)
    ELSE Outcome(db, 200, [success |-> TRUE], TRUE)

RECURSIVE ReorderLoop(_, _)
\* the for loop over habitOrders; binding an undefined order_position throws
ReorderLoop(db, habitOrders) ==
    IF habitOrders = <<>> THEN Outcome(db, 200, [success |-> TRUE], TRUE)
    ELSE IF Head(habitOrders).order_position = <<>>
    THEN Outcome(db, 400, [error |-> "Wrong API use"], FALSE)
    ELSE ReorderLoop(SetOrder(db, Head(habitOrders).id, Head(habitOrders).order_position[1]),
                     Tail(habitOrders))

\* POST /api/habits/reorder; an order_position is <<n>>, or <<>> when the field is missing
ReorderHabits(db, habitOrders) == ReorderLoop(db, habitOrders)

\* SELECT * FROM habit_logs WHERE habit_id = ? AND date = ?
SelectLog(db, habit_id, date) ==
    SelectSeq(db.logs, LAMBDA l : l.habit_id = habit_id /\ l.date = date)

HabitExists(db, id) == \E i \in 1..Len(db.habits) : db.habits[i].id = id

\* INSERT INTO habit_logs (habit_id, date, completed) VALUES (?, ?, 1) under the
\* table's UNIQUE(habit_id, date) and FOREIGN KEY constraints
InsertLog(db, habit_id, date) ==
    IF SelectLog(db, habit_id, date) # <<>>
    THEN Outcome(db, 400, [error |-> "UNIQUE constraint failed"], FALSE)
    ELSE IF ForeignKeys /\ ~HabitExists(db, habit_id)
    THEN Outcome(db, 400, [error |-> "FOREIGN KEY constraint failed"], FALSE)
    ELSE LET row == [id |-> db.seqLogs + 1, habit_id |-> habit_id, date |-> date,
                     completed |-> 1, notes |-> NULL]
         IN  Outcome([db EXCEPT !.logs = Append(@, row), !.seqLogs = row.id], 200,
                     [completed |-> 1], TRUE)

SetCompleted_wholeHabit(db, habit_id, date, newCompleted) ==
    [db EXCEPT !.logs =
        [i \in 1..Len(@) |->
            IF @[i].habit_id = habit_id
            THEN [@[i] EXCEPT !.completed = newCompleted] ELSE @[i]]]

\* UPDATE habit_logs SET completed = ? WHERE habit_id = ? AND date = ?
SetCompleted(db, habit_id, date, newCompleted) ==
    [db EXCEPT !.logs =
        [i \in 1..Len(@) |->
            IF @[i].habit_id = habit_id /\ @[i].date = date
            THEN [@[i] EXCEPT !.completed = newCompleted] ELSE @[i]]]

ToggleLog_keepsValue(db, habit_id, date) ==
    LET existingResult == SelectLog(db, habit_id, date)
    IN  IF Len(existingResult) > 0
        THEN Outcome(db, 200, [completed |-> existingResult[1].completed], TRUE)
        ELSE InsertLog(db, habit_id, date)

ToggleLog_appendsRow(db, habit_id, date) ==
    LET existingResult == SelectLog(db, habit_id, date)
        newCompleted == IF Len(existingResult) > 0 /\ Truthy(existingResult[1].completed)
                        THEN 0 ELSE 1
        row == [id |-> db.seqLogs + 1, habit_id |-> habit_id, date |-> date,
                completed |-> newCompleted, notes |-> NULL]
    IN  Outcome([db EXCEPT !.logs = Append(@, row), !.seqLogs = row.id], 200,
                [completed |-> newCompleted], TRUE)

\* POST /api/logs/toggle
ToggleLog(db, habit_id, date) ==
    LET existingResult == SelectLog(db, habit_id, date)
    IN  IF Len(existingResult) > 0
        THEN LET currentCompleted == existingResult[1].completed
                 newCompleted == IF Truthy(currentCompleted) THEN 0 ELSE 1
             IN  Outcome(SetCompleted(db, habit_id, date, newCompleted), 200,
                         [completed |-> newCompleted], TRUE)
        ELSE InsertLog(db, habit_id, date)

UpdateLogNotes_marksCompleted(db, id, notes) ==
    Outcome([db EXCEPT !.logs =
                 [i \in 1..Len(@) |->
                     IF @[i].id = id
                     THEN [@[i] EXCEPT !.completed = 1,
                                      !.notes = IF TruthyText(notes) THEN notes ELSE ""]
                     ELSE @[i]]],
            200, [success |-> TRUE], TRUE)

\* PUT /api/logs/:id
UpdateLogNotes(db, id, notes) ==
    Outcome([db EXCEPT !.logs =
                 [i \in 1..Len(@) |->
                     IF @[i].id = id
                     THEN [@[i] EXCEPT !.notes = IF TruthyText(notes) THEN notes ELSE ""]
                     ELSE @[i]]],
            200, [success |-> TRUE], TRUE)

\* the order of the habit names the model uses, as SQLite compares texts
NameRank == ("" :> 0) @@ ("Read" :> 1) @@ ("Run" :> 2)

\* FROM habit_logs hl JOIN habits h ON hl.habit_id = h.id
\* WHERE hl.date >= ? AND hl.date <= ?
JoinLogs(db, start, end) ==
    LET inRange == SelectSeq(db.logs, LAMBDA l : /\ ~StrLess(l.date, start)
                                                  /\ ~StrLess(end, l.date)
                                                  /\ HabitExists(db, l.habit_id))
    IN  [i \in 1..Len(inRange) |->
            [id |-> inRange[i].id, habit_id |-> inRange[i].habit_id,
             date |-> inRange[i].date, completed |-> inRange[i].completed,
             notes |-> inRange[i].notes,
             habit_name |-> (CHOOSE h \in {db.habits[k] : k \in 1..Len(db.habits)} :
                                 h.id = inRange[i].habit_id).name]]

\* ORDER BY hl.date DESC, h.name.  SQL leaves the order of rows that tie on both
\* open; SQLite scans habit_logs through the index of UNIQUE(habit_id, date) and
\* its sorter keeps the scan order of ties, so they come out by habit_id
SortLogsForQuery(rows) ==
    LET n == Len(rows)
        before(j, i) ==
            \/ StrLess(rows[i].date, rows[j].date)
            \/ /\ rows[i].date = rows[j].date
               /\ \/ NameRank[rows[j].habit_name] < NameRank[rows[i].habit_name]
                  \/ /\ rows[j].habit_name = rows[i].habit_name
                     /\ \/ rows[j].habit_id < rows[i].habit_id
                        \/ rows[j].habit_id = rows[i].habit_id /\ j < i
        places == {<<1 + Cardinality({j \in 1..n : before(j, i)}), i>> : i \in 1..n}
    IN  [k \in 1..n |-> rows[(CHOOSE p \in places : p[1] = k)[2]]]

\* GET /api/logs?start&end  (binding an undefined start or end throws)
QueryLogs(db, start, end) ==
    IF start = Undefined \/ end = Undefined
    THEN Outcome(db, 400, [error |-> "Wrong API use"], FALSE)
    ELSE Outcome(db, 200, SortLogsForQuery(JoinLogs(db, start, end)), FALSE)

\* handleSSR with a tenant: the habits with their logs, and the streak cell of each row
RenderSSR(db, now) ==
    LET habits == SelectHabitsOrdered(db.habits)
        habitsWithLogs ==
            [i \in 1..Len(habits) |-> WithLogs(habits[i], SelectLogsOf(db, habits[i].id))]
    IN  Outcome(db, 200,
                [habits |-> habitsWithLogs,
                 streaks |-> [i \in 1..Len(habits) |->
                                calculateCurrentStreak(habitsWithLogs[i].logs, now)]],
                FALSE)

\* ---------------------------------------------------------------- requests

NoRequest == [op |-> "none", tenant |-> <<>>, arg |-> <<>>, status |-> 0, body |-> <<>>]

\* no page is open
NoPage ==
    [pc |-> "closed", ready |-> FALSE, habits |-> <<>>,
     grid |-> [empty |-> TRUE, rows |-> <<>>], handlers |-> <<>>, clicked |-> <<>>,
     answer |-> <<>>, editing |-> 0]

\* the last request had no route
NoHandle == [before |-> EmptyDB, after |-> EmptyDB, cached |-> TRUE]

\* how many requests the model lets wait for initSqlJs() at the same time
MaxInflight == 3

\* how many of them when every route of the API can be asked for
MaxWaiting == 2

\* the route of the request req after "await getTenantDB(req.tenant)", on the
\* handle db
RouteOf(db, req) ==
    CASE req.op = "list" -> ListHabits(db)
      [] req.op = "get" -> GetHabit(db, req.arg.id)
      [] req.op = "create" -> CreateHabit(db, req.arg.name, req.arg.description, clock)
      [] req.op = "update" -> UpdateHabit(db, req.arg.id, req.arg.name, req.arg.description)
      [] req.op = "delete" -> DeleteHabit(db, req.arg.id)
      [] req.op = "reorder" -> ReorderHabits(db, req.arg.habitOrders)
      [] req.op = "toggle" -> ToggleLog(db, req.arg.habit_id, req.arg.date)
      [] req.op = "notes" -> UpdateLogNotes(db, req.arg.id, req.arg.notes)
      [] req.op = "logs" -> QueryLogs(db, req.arg.start, req.arg.end)
      [] req.op = "ssr" -> RenderSSR(db, NewDate)

\* the response to req whose route ended with the outcome h
ReplyOf(req, h) ==
    [op |-> req.op, tenant |-> req.tenant, arg |-> req.arg, status |-> h.status,
     body |-> IF req.op = "ssr"
              THEN [habits |-> h.body.habits, streaks |-> h.body.streaks, rendered |-> TRUE]
              ELSE h.body]

\* the response to req when it is refused before its route runs: an API request
\* is answered 400, GET / with the static page
RefusalOf(req, error) ==
    [op |-> req.op, tenant |-> req.tenant, arg |-> req.arg,
     status |-> IF req.op = "ssr" THEN 200 ELSE 400,
     body |-> IF req.op = "ssr"
              THEN [habits |-> <<>>, streaks |-> <<>>, rendered |-> FALSE]
              ELSE [error |-> error]]

\* a request runs up to "await initSqlJs()" while sql.js is loading: the tenant
\* passed the checks, databases.has() is false, and the request is suspended
Arrive(req) ==
    /\ ~sqlReady
    /\ Len(inflight) < MaxInflight
    /\ TenantError(req.tenant) = NULL
    /\ req.tenant \notin DOMAIN databases
    /\ inflight' = Append(inflight, [req |-> req, stage |-> "open", db |-> EmptyDB,
                                     cached |-> FALSE])
    /\ UNCHANGED <<databases, files, clock, today, last, pre, page, sqlReady, handle>>

\* One request from its arrival on.  Refused before it reaches "await
\* initSqlJs()" (by requireTenant, by the check the route makes first, checkError,
\* or by the checks of getTenantDB): answered at once.
\* With sql.js loaded, "await initSqlJs()" and "await getTenantDB()" resume before
\* any other request is taken up, so the request is served in one step.  While
\* sql.js is loading it is suspended.
Serve(op, tenant, arg, checkError) ==
    LET req == [op |-> op, tenant |-> tenant, arg |-> arg]
        early == IF tenant = <<>> THEN "Tenant parameter is required"
                 ELSE IF checkError # NULL THEN checkError
                 ELSE TenantError(tenant)
    IN  IF early # NULL
        THEN /\ ~sqlReady \/ inflight = <<>>
             /\ last' = RefusalOf(req, early)
             /\ pre' = [databases |-> databases, files |-> files]
             /\ handle' = NoHandle
             /\ UNCHANGED <<databases, files, clock, today, page, inflight, sqlReady>>
        ELSE IF sqlReady
        THEN /\ inflight = <<>>
             /\ LET r == getTenantDB(databases, files, tenant)
                    h == RouteOf(r.dbs[tenant], req)
                IN  /\ databases' = [r.dbs EXCEPT ![tenant] = h.db]
                    /\ files' = IF h.saved
                                THEN saveTenantDB([r.dbs EXCEPT ![tenant] = h.db],
                                                  r.fls, tenant)
                                ELSE r.fls
                    /\ last' = ReplyOf(req, h)
                    /\ handle' = [before |-> r.dbs[tenant], after |-> h.db, cached |-> TRUE]
             /\ pre' = [databases |-> databases, files |-> files]
             /\ UNCHANGED <<clock, today, page, inflight, sqlReady>>
        ELSE Len(inflight) < MaxWaiting /\ Arrive(req)

\* the database a request for tenant works on, were it resolved now
DbOf(tenant) ==
    IF tenant \in DOMAIN databases THEN databases[tenant]
    ELSE IF FilePath(tenant) \in DOMAIN files THEN files[FilePath(tenant)] ELSE EmptyDB

List(tenant) ==
    Serve("list", tenant, <<>>, NULL)

Get(tenant, id) ==
    Serve("get", tenant, [id |-> id], NULL)

\* (maxHabits bounds the rowids the model lets a tenant use up)
Create(tenant, name, description, maxHabits) ==
    /\ DbOf(tenant).seqHabits < maxHabits
    /\ Serve("create", tenant, [name |-> name, description |-> description],
             CreateCheck(name))

Update(tenant, id, name, description) ==
    Serve("update", tenant, [id |-> id, name |-> name, description |-> description], NULL)

Delete(tenant, id) ==
    Serve("delete", tenant, [id |-> id], NULL)

Reorder(tenant, habitOrders) ==
    Serve("reorder", tenant, [habitOrders |-> habitOrders], NULL)

Toggle(tenant, habit_id, date) ==
    Serve("toggle", tenant, [habit_id |-> habit_id, date |-> date], NULL)

Notes(tenant, id, notes) ==
    Serve("notes", tenant, [id |-> id, notes |-> notes], NULL)

Logs(tenant, start, end) ==
    Serve("logs", tenant, [start |-> start, end |-> end], NULL)

\* GET / : without a tenant, or when getTenantDB throws, the static page is sent
SSR(tenant) ==
    LET req == [op |-> "ssr", tenant |-> tenant, arg |-> <<>>]
    IN  IF tenant = <<>> \/ TenantError(tenant) # NULL
        THEN /\ ~sqlReady \/ inflight = <<>>
             /\ last' = RefusalOf(req, NULL)
             /\ pre' = [databases |-> databases, files |-> files]
             /\ handle' = NoHandle
             /\ UNCHANGED <<databases, files, clock, today, page, inflight, sqlReady>>
        ELSE IF sqlReady
        THEN /\ inflight = <<>>
             /\ LET r == getTenantDB(databases, files, tenant)
                    h == RouteOf(r.dbs[tenant], req)
                IN  /\ databases' = r.dbs
                    /\ files' = r.fls
                    /\ last' = ReplyOf(req, h)
                    /\ handle' = [before |-> r.dbs[tenant], after |-> h.db, cached |-> TRUE]
             /\ pre' = [databases |-> databases, files |-> files]
             /\ UNCHANGED <<clock, today, page, inflight, sqlReady>>
        ELSE Len(inflight) < MaxWaiting /\ Arrive(req)

\* the initSqlJs() promise resolves
SqlLoaded ==
    /\ ~sqlReady
    /\ inflight # <<>>
    /\ sqlReady' = TRUE
    /\ UNCHANGED <<databases, files, clock, today, last, pre, page, inflight, handle>>

\* the oldest continuation is the rest of getTenantDB: build a handle, put it in
\* the cache (replacing the one that was there), save, resume the route later
Opened ==
    /\ sqlReady
    /\ inflight # <<>>
    /\ Head(inflight).stage = "open"
    /\ LET e == Head(inflight)
           t == e.req.tenant
           db == OpenDatabase(files, t)
           dbs2 == (t :> db) @@ [u \in DOMAIN databases \ {t} |-> databases[u]]
           rest == Tail(inflight)
       IN  /\ databases' = dbs2
           /\ files' = saveTenantDB(dbs2, files, t)
           /\ inflight' = [i \in 1..Len(rest) |->
                              IF rest[i].req.tenant = t
                              THEN [rest[i] EXCEPT !.cached = FALSE] ELSE rest[i]]
                          \o <<[e EXCEPT !.stage = "route", !.db = db, !.cached = TRUE]>>
    /\ UNCHANGED <<clock, today, last, pre, page, sqlReady, handle>>

\* the oldest continuation is the rest of a route: it works on the handle that
\* getTenantDB returned to it, and saveTenantDB(req.tenant) exports the handle
\* that the cache holds; pre is the cache and the directory as the route found them.
\* handleSSR reads the habits and their logs and suspends at "await
\* Promise.all(...)": the continuations already queued run before it goes on.
\* With no habit the await resumes one turn of the queue later; otherwise the
\* reactions of Promise.all take a turn first (stage "all").
Routed ==
    /\ sqlReady
    /\ inflight # <<>>
    /\ Head(inflight).stage = "route"
    /\ LET e == Head(inflight)
           t == e.req.tenant
           mine == IF e.cached THEN databases[t] ELSE e.db
           h == RouteOf(mine, e.req)
           dbs2 == IF e.cached THEN [databases EXCEPT ![t] = h.db] ELSE databases
       IN  IF e.req.op = "ssr"
           THEN /\ inflight' = Append(Tail(inflight),
                                      [e EXCEPT !.stage = IF mine.habits = <<>> THEN "send"
                                                          ELSE "all",
                                                !.db = mine])
                /\ UNCHANGED <<databases, files, last, pre, handle>>
           ELSE /\ databases' = dbs2
                /\ files' = IF h.saved THEN saveTenantDB(dbs2, files, t) ELSE files
                /\ last' = ReplyOf(e.req, h)
                /\ handle' = [before |-> mine, after |-> h.db, cached |-> e.cached]
                /\ pre' = [databases |-> databases, files |-> files]
                /\ inflight' = Tail(inflight)
    /\ UNCHANGED <<clock, today, page, sqlReady>>

\* the oldest continuation belongs to a handleSSR suspended at "await
\* Promise.all(...)": the reactions of Promise.all resolve it (the await resumes a
\* turn later), or the await resumes: the page is built from the habits read
\* before the await, and sent
Sent ==
    /\ sqlReady
    /\ inflight # <<>>
    /\ Head(inflight).stage \in {"all", "send"}
    /\ LET e == Head(inflight)
       IN  IF e.stage = "all"
           THEN /\ inflight' = Append(Tail(inflight), [e EXCEPT !.stage = "send"])
                /\ UNCHANGED <<last, pre, handle>>
           ELSE /\ inflight' = Tail(inflight)
                /\ last' = ReplyOf(e.req, RouteOf(e.db, e.req))
                /\ handle' = [before |-> e.db, after |-> e.db, cached |-> e.cached]
                /\ pre' = [databases |-> databases, files |-> files]
    /\ UNCHANGED <<databases, files, clock, today, page, sqlReady>>

\* the requests that waited for sql.js go on
Resume ==
    \/ SqlLoaded
    \/ Opened
    \/ Routed

\* time passes between two requests
Tick ==
    /\ clock < MaxClock
    /\ clock' = clock + 1
    /\ UNCHANGED <<databases, files, today, last, pre, page, inflight, sqlReady, handle>>

\* ------------------------------------------------------------------ inputs

Day0 == 19783                     \* 2024-03-01, so that yesterday is 2024-02-29

TenantA == <<"a">>
TenantB == <<"b", "_">>

\* the ISO date k days before day
DateString(day, k) == formatDate([day |-> day - k, tod |-> 0])

RECURSIVE SeqsUpTo(_, _)
\* the sequences over S of length at most n
SeqsUpTo(S, n) ==
    IF n = 0 THEN {<<>>}
    ELSE LET shorter == SeqsUpTo(S, n - 1)
         IN  shorter \cup {Append(q, x) : q \in shorter, x \in S}

\* the habitOrders arrays over ids and positions; a position is <<n>>, or <<>> when
\* the entry has no order_position
OrderInputs(ids, positions) ==
    SeqsUpTo([id : ids, order_position : positions], MaxOrders)

\* every request of the API, with its fields drawn from the sets of in
Requests(in) ==
    \E tenant \in in.tenants :
        \/ List(tenant)
        \/ \E id \in in.ids : Get(tenant, id)
        \/ \E name \in in.names, description \in in.descriptions :
              Create(tenant, name, description, in.maxHabits)
        \/ \E id \in in.ids, name \in in.newNames, description \in in.descriptions :
              Update(tenant, id, name, description)
        \/ \E id \in in.ids : Delete(tenant, id)
        \/ \E habitOrders \in in.orders : Reorder(tenant, habitOrders)
        \/ \E id \in in.ids, date \in in.dates : Toggle(tenant, id, date)
        \/ \E id \in in.logIds, notes \in in.notes : Notes(tenant, id, notes)
        \/ \E range \in in.ranges : Logs(tenant, range.start, range.end)
        \/ SSR(tenant)

Init ==
    /\ databases = <<>>
    /\ files = <<>>
    /\ clock = 0
    /\ today = Day0
    /\ last = NoRequest
    /\ pre = [databases |-> <<>>, files |-> <<>>]
    /\ page = NoPage
    /\ inflight = <<>>
    /\ sqlReady = FALSE
    /\ handle = NoHandle

\* one tenant, its habits, and today's logs
MainInputs ==
    [tenants |-> {TenantA},
     maxHabits |-> MaxHabits,
     ids |-> 1..MaxHabits,
     names |-> {"Read", ""},
     newNames |-> {"Run"},
     descriptions |-> {Undefined},
     orders |-> OrderInputs(1..MaxHabits, {<<0>>, <<1>>}),
     dates |-> {DateString(Day0, 0)},
     logIds |-> {1},
     notes |-> {"note"},
     ranges |-> {[start |-> DateString(Day0, 1), end |-> DateString(Day0, 0)]}]

Next ==
    \/ Requests(MainInputs)
    \/ Resume
    \/ Sent
    \/ Tick

Spec == Init /\ [][Next]_vars

\* ------------------------------------------------- long log histories

\* The habit_logs table after a habit was toggled on n consecutive days ending
\* today, most recent day first or oldest day first, and the row of rowid zeroAt
\* (if any) toggled a second time.
LogHistory(n, newestFirst, zeroAt) ==
    [i \in 1..n |->
        [id |-> i, habit_id |-> 1,
         date |-> DateString(Day0, IF newestFirst THEN i - 1 ELSE n - i),
         completed |-> IF i = zeroAt THEN 0 ELSE 1, notes |-> NULL]]

HistoryDB(n, newestFirst, zeroAt) ==
    [habits |-> <<[id |-> 1, name |-> "Read", description |-> "", created_at |-> 0,
                   order_position |-> 0]>>,
     logs |-> LogHistory(n, newestFirst, zeroAt),
     seqHabits |-> 1, seqLogs |-> n]

\* a server whose one tenant has a log history around the 90-row window
InitLogs ==
    \E n \in (LogLimit - 1)..(LogLimit + MaxExtra), newestFirst \in BOOLEAN, zeroAt \in 0..1 :
        /\ databases = (TenantA :> HistoryDB(n, newestFirst, zeroAt))
        /\ files = (FilePath(TenantA) :> HistoryDB(n, newestFirst, zeroAt))
        /\ clock = 0
        /\ today = Day0
        /\ last = NoRequest
        /\ pre = [databases |-> databases, files |-> files]
        /\ page = NoPage
        /\ inflight = <<>>
        /\ sqlReady = TRUE
        /\ handle = NoHandle

\* tomorrow, and the last day of the 90-day window
LogDates == {DateString(Day0, -1), DateString(Day0, LogLimit - 1)}

NextLogs ==
    \/ \E id \in 1..2 : Get(TenantA, id)
    \/ \E date \in LogDates : Toggle(TenantA, 1, date)

SpecLogs == InitLogs /\ [][NextLogs]_vars

\* ------------------------------------------------------- streak inputs

\* The logs of one habit as GET /api/habits/:id would hand them to the page: an
\* entry for each of the n days ending today, most recent first or oldest first,
\* all completed except the entry of hole days ago (if any), which is either
\* absent or not completed.
StreakLogs(n, hole, absent, newestFirst) ==
    LET back(i) == IF newestFirst THEN i - 1 ELSE n - i
        all == [i \in 1..n |->
                   [id |-> i, habit_id |-> 1, date |-> DateString(Day0, back(i)),
                    completed |-> IF back(i) = hole THEN 0 ELSE 1, notes |-> NULL]]
    IN  SelectSeq(all, LAMBDA l : ~absent \/ l.completed = 1)

\* run lengths: short ones, a week, and the lengths around the 90-day scan
StreakLengths == (0..2) \cup {7} \cup ((ScanDays - 1)..(ScanDays + MaxExtra))

\* where the run is broken (-1: nowhere)
StreakHoles == {-1, 0, 1, 3, ScanDays - 2, ScanDays - 1, ScanDays}

InitStreak ==
    \E n \in StreakLengths, hole \in StreakHoles, absent \in BOOLEAN, newestFirst \in BOOLEAN :
        /\ hole < n
        /\ databases = <<>>
        /\ files = <<>>
        /\ clock = 0
        /\ today = Day0
        /\ last = [op |-> "logs", tenant |-> TenantA,
                   arg |-> [logs |-> StreakLogs(n, hole, absent, newestFirst)],
                   status |-> 200, body |-> 0]
        /\ pre = [databases |-> <<>>, files |-> <<>>]
        /\ page = NoPage
        /\ inflight = <<>>
        /\ sqlReady = FALSE
        /\ handle = NoHandle

\* the page computes the streak of the logs it holds
CurrentStreak ==
    /\ last.op = "logs"
    /\ last' = [last EXCEPT !.op = "streak",
                            !.body = calculateCurrentStreak(last.arg.logs, NewDate)]
    /\ UNCHANGED <<databases, files, clock, today, pre, page, inflight, sqlReady, handle>>

NextStreak == CurrentStreak

SpecStreak == InitStreak /\ [][NextStreak]_vars

\* ------------------------------------------------------- tenant inputs

\* a server that has served nobody, or TenantA only
InitTenant ==
    \E cached \in BOOLEAN :
        /\ databases = IF cached THEN (TenantA :> EmptyDB) ELSE <<>>
        /\ files = IF cached THEN (FilePath(TenantA) :> EmptyDB) ELSE <<>>
        /\ clock = 0
        /\ today = Day0
        /\ last = NoRequest
        /\ pre = [databases |-> databases, files |-> files]
        /\ page = NoPage
        /\ inflight = <<>>
        /\ sqlReady = cached
        /\ handle = NoHandle

\* one request with any tenant string
NextTenant ==
    \/ /\ last = NoRequest
       /\ inflight = <<>>
       /\ \E tenant \in SeqsUpTo({"a", "Z", "7", "-", "_", " ", "/"}, MaxTenantLen) :
             \/ List(tenant)
             \/ SSR(tenant)
    \/ Resume
    \/ Sent

SpecTenant == InitTenant /\ [][NextTenant]_vars

\* ---------------------------------------------------------- two tenants

IsoInputs ==
    [tenants |-> {TenantA, TenantB},
     maxHabits |-> IsoHabits,
     ids |-> {1},
     names |-> {"Read"},
     newNames |-> {"Run"},
     descriptions |-> {Undefined},
     orders |-> OrderInputs({1}, {<<1>>}),
     dates |-> {DateString(Day0, 0)},
     logIds |-> {1},
     notes |-> {"note"},
     ranges |-> {[start |-> DateString(Day0, 1), end |-> DateString(Day0, 0)]}]

NextIso ==
    \/ Requests(IsoInputs)
    \/ Resume
    \/ Sent

SpecIso == Init /\ [][NextIso]_vars

\* ----------------------------------------------------------- grid dates

\* the instants at which a grid is built: local midnight or later in the day, on
\* each of the GridSpan + 1 days ending on Day0
InitGrid ==
    \E day \in (Day0 - GridSpan)..Day0, tod \in 0..1 :
        /\ databases = <<>>
        /\ files = <<>>
        /\ clock = 0
        /\ today = day
        /\ last = [op |-> "now", tenant |-> TenantA, arg |-> [day |-> day, tod |-> tod],
                   status |-> 200, body |-> <<>>]
        /\ pre = [databases |-> <<>>, files |-> <<>>]
        /\ page = NoPage
        /\ inflight = <<>>
        /\ sqlReady = FALSE
        /\ handle = NoHandle

\* one of the three grids computes its dates
GridDates(grid) ==
    /\ last.op = "now"
    /\ last' = [last EXCEPT !.op = grid,
                            !.body = CASE grid = "mobile" -> getGridDatesMobile(last.arg)
                                       [] grid = "desktop" -> getGridDatesDesktop(last.arg)
                                       [] grid = "ssr" -> getGridDatesSSR(last.arg)]
    /\ UNCHANGED <<databases, files, clock, today, pre, page, inflight, sqlReady, handle>>

NextGrid == \E grid \in {"mobile", "desktop", "ssr"} : GridDates(grid)

SpecGrid == InitGrid /\ [][NextGrid]_vars

\* ------------------------------------------------------- renderer inputs

\* how many days ago the logs handed to a renderer were made
RenderOffsets == {0, 2, 6, 7}

\* the logs of habit id: for each offset, no entry, an entry with completed = 0, or
\* one with completed = 1 (flag[k] = 0, 1, 2), most recent first
RenderLogs(id, flag) ==
    LET all == [k \in 1..(Max(RenderOffsets) + 1) |->
                   [id |-> k, habit_id |-> id, date |-> DateString(Day0, k - 1),
                    completed |-> IF k - 1 \in RenderOffsets /\ flag[k - 1] = 2 THEN 1 ELSE 0,
                    notes |-> NULL]]
    IN  SelectSeq(all, LAMBDA l : \E k \in RenderOffsets :
                                     l.date = DateString(Day0, k) /\ flag[k] # 0)

RenderHabit(id, flag) ==
    [id |-> id, name |-> "Read", description |-> "", created_at |-> 0,
     order_position |-> id - 1, logs |-> RenderLogs(id, flag)]

\* one habit with any logs, alone or followed by a habit with no logs or with
\* today completed
InitRender ==
    \E flag \in [RenderOffsets -> 0..2], second \in 0..2 :
        /\ databases = <<>>
        /\ files = <<>>
        /\ clock = 0
        /\ today = Day0
        /\ last = [op |-> "habits", tenant |-> TenantA,
                   arg |-> <<RenderHabit(1, flag)>> \o
                           (IF second = 0 THEN <<>>
                            ELSE <<RenderHabit(2, [k \in RenderOffsets |->
                                                      IF k = 0 /\ second = 2 THEN 2 ELSE 0])>>),
                   status |-> 200, body |-> <<>>]
        /\ pre = [databases |-> <<>>, files |-> <<>>]
        /\ page = NoPage
        /\ inflight = <<>>
        /\ sqlReady = FALSE
        /\ handle = NoHandle

\* one of the three renderers draws the grid of the habits
RenderGrid(grid) ==
    /\ last.op = "habits"
    /\ last' = [last EXCEPT !.op = grid,
                            !.body = CASE grid = "mobile" -> RenderGridMobile(last.arg, NewDate)
                                       [] grid = "desktop" -> RenderGridDesktop(last.arg, NewDate)
                                       [] grid = "ssr" -> renderHabitsGridHTML(last.arg, NewDate)]
    /\ UNCHANGED <<databases, files, clock, today, pre, page, inflight, sqlReady, handle>>

NextRender == \E grid \in {"mobile", "desktop", "ssr"} : RenderGrid(grid)

SpecRender == InitRender /\ [][NextRender]_vars

\* ------------------------------------------------------- reorder inputs

\* habitOrders has up to MaxOrders + 1 entries, with and without an order_position
NextReorder ==
    \/ Create(TenantA, "Read", Undefined, MaxHabits)
    \/ \E habitOrders \in SeqsUpTo([id : 1..MaxHabits,
                                     order_position : {<<>>, <<1>>, <<5>>}], MaxOrders + 1) :
          Reorder(TenantA, habitOrders)
    \/ List(TenantA)
    \/ Resume

SpecReorder == Init /\ [][NextReorder]_vars

\* ------------------------------------------------- names and descriptions

\* the name and description fields of a request body: a text, the empty text, or
\* no field at all
NameInputs ==
    [names |-> {"Read", "", Undefined},
     newNames |-> {"Run", "", Undefined},
     descriptions |-> {"daily", Undefined}]

NextNames ==
    \/ \E name \in NameInputs.names, description \in NameInputs.descriptions :
          Create(TenantA, name, description, MaxHabits)
    \/ \E id \in 1..MaxHabits, name \in NameInputs.newNames,
          description \in NameInputs.descriptions :
          Update(TenantA, id, name, description)
    \/ Toggle(TenantA, 1, DateString(Day0, 0))
    \/ Resume

SpecNames == Init /\ [][NextNames]_vars

\* ------------------------------------------------------- desktop page

\* renderHabitsGrid: "if (h.logs) return Promise.resolve(h)", else
\* fetchHabitWithLogs(h.id); an array, even an empty one, is truthy
HabitWithLogs(db, h) ==
    IF "logs" \in DOMAIN h THEN h ELSE GetHabit(db, h.id).body

\* renderHabitsGrid up to "await Promise.all(...)": the habits as the server
\* answers the fetches (or as the page holds them, when they carry logs)
FetchedHabits(db, habits) == [i \in 1..Len(habits) |-> HabitWithLogs(db, habits[i])]

\* renderHabitsGrid after the await, on the habits the fetches returned: when a
\* fetch answered with an error body the render throws and the grid stays
DrawnGrid(habitsWithLogs, grid, now) ==
    IF habitsWithLogs = <<>> THEN [empty |-> TRUE, rows |-> <<>>]
    ELSE IF \E i \in 1..Len(habitsWithLogs) : "logs" \notin DOMAIN habitsWithLogs[i] THEN grid
    ELSE RenderGridDesktop(habitsWithLogs, now)

\* how many handlers of the page the model lets run at the same time
MaxPending == 2

\* how many habits the model lets the tenant of the page use up
MaxPageHabits == 1

\* a handler of the page suspended at an await: kind is the handler (init, the
\* click on a day-cell, saveHabit, handleDelete, previousWeek/nextWeek), at the
\* await it is at ("request": its toggle, create, update or delete; "list":
\* fetchHabits of loadHabits; "fetch": the fetches of renderHabitsGrid), req the
\* request it sent, served how many of its requests the server has served, body
\* the answer to req, habits the common.habits that renderHabitsGrid mapped and
\* fetched what Promise.all holds for them
Waiting(kind, at, op, arg) ==
    [kind |-> kind, at |-> at, req |-> [op |-> op, arg |-> arg], served |-> 0,
     body |-> <<>>, habits |-> <<>>, fetched |-> <<>>]

\* the page pg when handler h ends, its renderHabitsGrid leaving grid (ok: it did
\* not throw): init goes on to bind the buttons; clicked and answer keep the cell
\* and the toggle answer of a click handler that has drawn
Ended(pg, h, grid, ok) ==
    [pg EXCEPT !.grid = grid,
               !.ready = @ \/ (h.kind = "init" /\ ok),
               !.clicked = IF h.kind = "click" /\ ok THEN h.req.arg ELSE <<>>,
               !.answer = IF h.kind = "click" /\ ok THEN h.body ELSE <<>>]

\* renderHabitsGrid() called by handler h on the page pg, up to its await or, when
\* nothing is fetched, to its end: the empty state; the grid of habits that carry
\* logs (Promise.all of resolved promises resumes before any other event); or the
\* fetches are sent
renderHabitsGrid(pg, h, now) ==
    IF pg.habits = <<>> THEN Ended(pg, h, [empty |-> TRUE, rows |-> <<>>], TRUE)
    ELSE IF \A i \in 1..Len(pg.habits) : "logs" \in DOMAIN pg.habits[i]
    THEN Ended(pg, h, RenderGridDesktop(pg.habits, now), TRUE)
    ELSE [pg EXCEPT !.handlers =
             Append(@, [h EXCEPT !.at = "fetch", !.served = 0, !.habits = pg.habits,
                                 !.fetched = pg.habits])]

\* a tenant's database file with one habit and, when flag > 0, a row for today
\* with completed = flag - 1
PageDB(flag) ==
    [habits |-> <<[id |-> 1, name |-> "Read", description |-> "", created_at |-> 0,
                   order_position |-> 0]>>,
     logs |-> IF flag = 0 THEN <<>>
              ELSE <<[id |-> 1, habit_id |-> 1, date |-> DateString(Day0, 0),
                      completed |-> flag - 1, notes |-> NULL]>>,
     seqHabits |-> 1, seqLogs |-> IF flag = 0 THEN 0 ELSE 1]

\* no page is open; the server has the tenant cached; the tenant has no habit
\* yet, or one habit with a description or none
InitPage ==
    \E db \in {EmptyDB} \cup {[PageDB(flag) EXCEPT !.habits[1].description = description] :
                                 flag \in 0..2, description \in {"", "daily"}} :
        /\ databases = (TenantA :> db)
        /\ files = (FilePath(TenantA) :> databases[TenantA])
        /\ clock = 0
        /\ today = Day0
        /\ last = NoRequest
        /\ pre = [databases |-> databases, files |-> files]
        /\ page = NoPage
        /\ inflight = <<>>
        /\ sqlReady = TRUE
        /\ handle = NoHandle

\* GET /?tenant=a in production, then init() -> loadHabits(true): the habits of
\* window.__SSR_DATA__ (with their logs) become common.habits, the grid the
\* server rendered is kept and its cells get their listeners, init binds the
\* buttons.  (The model opens or reloads a page when no handler is waiting.)
OpenSSR ==
    /\ page.handlers = <<>>
    /\ LET r == getTenantDB(databases, files, TenantA)
           h == RenderSSR(r.dbs[TenantA], NewDate)
       IN  /\ databases' = r.dbs
           /\ files' = r.fls
           /\ last' = [op |-> "ssr", tenant |-> TenantA, arg |-> <<>>, status |-> 200,
                       body |-> [habits |-> h.body.habits, streaks |-> h.body.streaks,
                                 rendered |-> TRUE]]
           /\ page' = [pc |-> "open", ready |-> TRUE, habits |-> h.body.habits,
                       grid |-> renderHabitsGridHTML(h.body.habits, NewDate),
                       handlers |-> <<>>, clicked |-> <<>>, answer |-> <<>>, editing |-> 0]
           /\ handle' = [before |-> r.dbs[TenantA], after |-> r.dbs[TenantA], cached |-> TRUE]
    /\ pre' = [databases |-> databases, files |-> files]
    /\ UNCHANGED <<clock, today, inflight, sqlReady>>

\* the static page, then init() -> loadHabits() up to "await fetchHabits()"
OpenAPI ==
    /\ page.handlers = <<>>
    /\ page' = [pc |-> "open", ready |-> FALSE, habits |-> <<>>,
                grid |-> [empty |-> TRUE, rows |-> <<>>],
                handlers |-> <<Waiting("init", "list", "list", <<>>)>>,
                clicked |-> <<>>, answer |-> <<>>, editing |-> 0]
    /\ UNCHANGED <<databases, files, clock, today, last, pre, inflight, sqlReady, handle>>

\* a click on a day-cell of the grid on display: its handler sends the toggle
\* request with the cell's data-toggle and data-date
ClickCell(habit_id, date) ==
    /\ page.pc = "open"
    /\ Len(page.handlers) < MaxPending
    /\ \E i \in 1..Len(page.grid.rows) : \E j \in 1..Len(page.grid.rows[i].cells) :
          /\ page.grid.rows[i].cells[j].habit_id = habit_id
          /\ page.grid.rows[i].cells[j].date = date
    /\ page' = [page EXCEPT !.handlers =
                   Append(@, Waiting("click", "request", "toggle",
                                     [habit_id |-> habit_id, date |-> date]))]
    /\ UNCHANGED <<databases, files, clock, today, last, pre, inflight, sqlReady, handle>>

\* openAddModal (id = 0, the button init has bound) or openEditModal(id) (a click
\* on the name cell of a row of the grid): editingHabitId is set
OpenModal(id) ==
    /\ page.pc = "open"
    /\ IF id = 0 THEN page.ready
       ELSE \E i \in 1..Len(page.grid.rows) : page.grid.rows[i].habit_id = id
    /\ page' = [page EXCEPT !.editing = id]
    /\ UNCHANGED <<databases, files, clock, today, last, pre, inflight, sqlReady, handle>>

\* saveHabit up to its first await, with name typed into the modal: updateHabit of
\* the habit that is edited, or createHabit; both send description ''
SaveHabit(name) ==
    /\ page.pc = "open"
    /\ page.ready
    /\ Len(page.handlers) < MaxPending
    /\ TruthyText(name)
    /\ IF page.editing # 0
       THEN page' = [page EXCEPT !.handlers =
                        Append(@, Waiting("save", "request", "update",
                                          [id |-> page.editing, name |-> name,
                                           description |-> ""]))]
       ELSE /\ databases[TenantA].seqHabits
                  + Cardinality({k \in 1..Len(page.handlers) :
                                    page.handlers[k].req.op = "create"}) < MaxPageHabits
            /\ page' = [page EXCEPT !.handlers =
                           Append(@, Waiting("save", "request", "create",
                                             [name |-> name, description |-> ""]))]
    /\ UNCHANGED <<databases, files, clock, today, last, pre, inflight, sqlReady, handle>>

\* handleDelete up to its await, the confirm accepted
HandleDelete ==
    /\ page.pc = "open"
    /\ page.ready
    /\ Len(page.handlers) < MaxPending
    /\ page.editing # 0
    /\ page' = [page EXCEPT !.handlers =
                   Append(@, Waiting("delete", "request", "delete", [id |-> page.editing]))]
    /\ UNCHANGED <<databases, files, clock, today, last, pre, inflight, sqlReady, handle>>

\* previousWeek or nextWeek: renderGridHeader() and renderHabitsGrid()
WeekChanged ==
    /\ page.pc = "open"
    /\ page.ready
    /\ Len(page.handlers) < MaxPending
    /\ page' = renderHabitsGrid(page, Waiting("week", "fetch", "none", <<>>), NewDate)
    /\ UNCHANGED <<databases, files, clock, today, last, pre, inflight, sqlReady, handle>>

\* the server serves a request of handler k: the request it waits for or, inside
\* renderHabitsGrid, the next GET /api/habits/:id of those it sent
RequestServed(k) ==
    /\ page.pc = "open"
    /\ k \in 1..Len(page.handlers)
    /\ LET h == page.handlers[k]
           sent == {i \in 1..Len(h.habits) : "logs" \notin DOMAIN h.habits[i]}
           i == CHOOSE i \in sent : Cardinality({j \in sent : j < i}) = h.served
           req == IF h.at = "fetch"
                  THEN [op |-> "get", tenant |-> TenantA, arg |-> [id |-> h.habits[i].id]]
                  ELSE [op |-> h.req.op, tenant |-> TenantA, arg |-> h.req.arg]
           r == getTenantDB(databases, files, TenantA)
           o == RouteOf(r.dbs[TenantA], req)
       IN  /\ h.served < (IF h.at = "fetch" THEN Cardinality(sent) ELSE 1)
           /\ databases' = [r.dbs EXCEPT ![TenantA] = o.db]
           /\ files' = IF o.saved
                       THEN saveTenantDB([r.dbs EXCEPT ![TenantA] = o.db], r.fls, TenantA)
                       ELSE r.fls
           /\ last' = ReplyOf(req, o)
           /\ handle' = [before |-> r.dbs[TenantA], after |-> o.db, cached |-> TRUE]
           /\ page' = [page EXCEPT !.handlers[k] =
                          IF h.at = "fetch"
                          THEN [h EXCEPT !.served = @ + 1, !.fetched[i] = o.body]
                          ELSE [h EXCEPT !.served = 1, !.body = o.body]]
    /\ pre' = [databases |-> databases, files |-> files]
    /\ UNCHANGED <<clock, today, inflight, sqlReady>>

\* the response handler k awaits has reached the page (all of them, for
\* Promise.all) and the handler goes on to its next await or to its end: after
\* the toggle, renderHabitsGrid(); after the create, update or delete,
\* closeModal() and loadHabits(); after fetchHabits, setHabits and
\* renderHabitsGrid(); after the fetches, the grid is drawn
ResponseArrived(k) ==
    /\ page.pc = "open"
    /\ k \in 1..Len(page.handlers)
    /\ LET h == page.handlers[k]
           sent == {i \in 1..Len(h.habits) : "logs" \notin DOMAIN h.habits[i]}
           rest == [page EXCEPT !.handlers = SubSeq(@, 1, k - 1) \o SubSeq(@, k + 1, Len(@))]
       IN  /\ h.served = (IF h.at = "fetch" THEN Cardinality(sent) ELSE 1)
           /\ page' =
                 IF h.at = "fetch"
                 THEN Ended(rest, h, DrawnGrid(h.fetched, page.grid, NewDate),
                            \A i \in 1..Len(h.fetched) : "logs" \in DOMAIN h.fetched[i])
                 ELSE IF h.at = "list"
                 THEN renderHabitsGrid([rest EXCEPT !.habits = h.body], h, NewDate)
                 ELSE IF h.kind = "click"
                 THEN renderHabitsGrid(rest, h, NewDate)
                 ELSE [rest EXCEPT !.handlers =
                          Append(@, Waiting(h.kind, "list", "list", <<>>))]
    /\ UNCHANGED <<databases, files, clock, today, last, pre, inflight, sqlReady, handle>>

\* the page with every handler it binds; the clicks are on today's cell
NextPage ==
    \/ OpenSSR
    \/ OpenAPI
    \/ ClickCell(1, DateString(Day0, 0))
    \/ \E id \in 0..MaxPageHabits : OpenModal(id)
    \/ SaveHabit("Run")
    \/ HandleDelete
    \/ WeekChanged
    \/ \E k \in 1..MaxPending : RequestServed(k)
    \/ \E k \in 1..MaxPending : ResponseArrived(k)

SpecPage == InitPage /\ [][NextPage]_vars

\* ------------------------------------------------- overlapping clicks

\* a desktop page that loaded its habits through the API and has drawn its grid
InitClicks ==
    \E flag \in 0..2 :
        /\ databases = (TenantA :> PageDB(flag))
        /\ files = (FilePath(TenantA) :> PageDB(flag))
        /\ clock = 0
        /\ today = Day0
        /\ last = NoRequest
        /\ pre = [databases |-> databases, files |-> files]
        /\ page = [pc |-> "open", ready |-> TRUE,
                   habits |-> ListHabits(PageDB(flag)).body,
                   grid |-> DrawnGrid(FetchedHabits(PageDB(flag), ListHabits(PageDB(flag)).body),
                                      [empty |-> TRUE, rows |-> <<>>], [day |-> Day0, tod |-> 0]),
                   handlers |-> <<>>, clicked |-> <<>>, answer |-> <<>>, editing |-> 0]
        /\ inflight = <<>>
        /\ sqlReady = TRUE
        /\ handle = NoHandle

\* the clicks on day-cells alone, on today's cell and on yesterday's
NextClicks ==
    \/ \E date \in {DateString(Day0, 0), DateString(Day0, 1)} : ClickCell(1, date)
    \/ \E k \in 1..MaxPending : RequestServed(k)
    \/ \E k \in 1..MaxPending : ResponseArrived(k)

SpecClicks == InitClicks /\ [][NextClicks]_vars

\* -------------------------------------------------- requests in flight

\* the requests that arrive meanwhile: GET /api/habits, GET / and POST /api/habits
RaceRequests ==
    [op : {"list", "ssr"}, tenant : {TenantA, TenantB}, arg : {<<>>}]
        \cup [op : {"create"}, tenant : {TenantA, TenantB},
              arg : [name : {"Read", "Run"}, description : {""}]]

\* a server that has just started: nothing cached, sql.js not yet loaded
InitRace ==
    /\ databases = <<>>
    /\ files \in {<<>>, (FilePath(TenantA) :> PageDB(0))}
    /\ clock = 0
    /\ today = Day0
    /\ last = NoRequest
    /\ pre = [databases |-> databases, files |-> files]
    /\ page = NoPage
    /\ inflight = <<>>
    /\ sqlReady = FALSE
    /\ handle = NoHandle

NextRace ==
    \/ \E req \in RaceRequests : Arrive(req)
    \/ SqlLoaded
    \/ Opened
    \/ Routed
    \/ Sent

SpecRace == InitRace /\ [][NextRace]_vars

\* ------------------------------------------------ the three copies

Copies == {"server", "common", "main"}

\* a list of logs and a date of the grid, back days before today (-1: tomorrow); a
\* past day's date keeps the time of day of the call, today's is midnight
InitCopies ==
    \E n \in StreakLengths, hole \in StreakHoles, absent \in BOOLEAN, newestFirst \in BOOLEAN,
       back \in {-1, 0, 1, 3} :
        /\ hole < n
        /\ databases = <<>>
        /\ files = <<>>
        /\ clock = 0
        /\ today = Day0
        /\ last = [op |-> "logs", tenant |-> TenantA,
                   arg |-> [logs |-> StreakLogs(n, hole, absent, newestFirst),
                            date |-> [day |-> Day0 - back, tod |-> IF back = 0 THEN 0 ELSE 1]],
                   status |-> 200, body |-> <<>>]
        /\ pre = [databases |-> <<>>, files |-> <<>>]
        /\ page = NoPage
        /\ inflight = <<>>
        /\ sqlReady = FALSE
        /\ handle = NoHandle

\* what one copy computes for logs and date
CopyResult(copy, logs, date, now) ==
    IF copy = "server"
    THEN [streak |-> calculateCurrentStreak(logs, now),
          completed |-> isCompletedOnDate(logs, date)]
    ELSE IF copy = "common"
    THEN [streak |-> calculateCurrentStreakCommon(logs, now),
          completed |-> isCompletedOnDateCommon(logs, date)]
    ELSE [streak |-> calculateCurrentStreakMain(logs, now),
          completed |-> isCompletedOnDateMain(logs, date)]

\* one of the three programs computes the streak and the cell of the date
EvalCopy(copy) ==
    /\ last.op = "logs"
    /\ last' = [last EXCEPT !.op = copy,
                            !.body = CopyResult(copy, last.arg.logs, last.arg.date, NewDate)]
    /\ UNCHANGED <<databases, files, clock, today, pre, page, inflight, sqlReady, handle>>

NextCopies == \E copy \in Copies : EvalCopy(copy)

SpecCopies == InitCopies /\ [][NextCopies]_vars

\* ------------------------------------------------------------------ claims

\* the database of tenant when the last request arrived
PreDb(tenant) ==
    IF tenant \in DOMAIN pre.databases THEN pre.databases[tenant]
    ELSE IF FilePath(tenant) \in DOMAIN pre.files THEN pre.files[FilePath(tenant)]
    ELSE EmptyDB

\* the rows of a table as a set
Rows(table) == {table[i] : i \in 1..Len(table)}

\* the habit row that a habit with its logs was made from
HabitRow(h) ==
    [id |-> h.id, name |-> h.name, description |-> h.description,
     created_at |-> h.created_at, order_position |-> h.order_position]

LogsAt(db, habit_id, date) ==
    {l \in Rows(db.logs) : l.habit_id = habit_id /\ l.date = date}

\* C1: a successful toggleLog(habit_id, date) flips the completed flag of the row of
\* (habit_id, date) when there is one and adds no row; otherwise it inserts exactly
\* one row, with completed = 1; every other row is left as it was, and the value
\* returned is the completed value the row holds afterwards (the rows are those of
\* the database handle the request works on).
C1_ToggleFlipsOrInserts ==
    (last.op = "toggle" /\ last.status = 200) =>
        LET before == handle.before
            after == handle.after
            h == last.arg.habit_id
            d == last.arg.date
            old == LogsAt(before, h, d)
            new == LogsAt(after, h, d)
            others(db) == {l \in Rows(db.logs) : ~(l.habit_id = h /\ l.date = d)}
        IN  /\ Cardinality(new) = 1
            /\ others(after) = others(before)
            /\ \A l \in new : last.body.completed = l.completed
            /\ IF old # {}
               THEN /\ Len(after.logs) = Len(before.logs)
                    /\ \A o \in old, l \in new :
                          /\ l.completed = (IF o.completed = 1 THEN 0 ELSE 1)
                          /\ l = [o EXCEPT !.completed = l.completed]
               ELSE /\ Len(after.logs) = Len(before.logs) + 1
                    /\ \A l \in new : l.completed = 1

\* a toggle has just flipped an existing row from 1 to 0, beside another row
C1_Witness ==
    /\ last.op = "toggle" /\ last.status = 200
    /\ LogsAt(handle.before, last.arg.habit_id, last.arg.date) # {}
    /\ last.body.completed = 0
    /\ Len(handle.after.logs) = 2

\* C2: in every reachable state, each tenant's habit_logs table (in memory and on
\* disk, and in the handle a request has just worked on) holds at most one row per
\* (habit_id, date) pair.
C2_OneLogPerHabitAndDate ==
    LET unique(logs) ==
            \A i, j \in 1..Len(logs) :
                (logs[i].habit_id = logs[j].habit_id /\ logs[i].date = logs[j].date) => i = j
    IN  /\ \A t \in DOMAIN databases : unique(databases[t].logs)
        /\ \A f \in DOMAIN files : unique(files[f].logs)
        /\ unique(handle.after.logs)

\* the same (habit, date) was toggled again after other requests, with both habits logged
C2_Witness ==
    /\ last.op = "toggle" /\ last.status = 200
    /\ LogsAt(PreDb(last.tenant), last.arg.habit_id, last.arg.date) # {}
    /\ Len(databases[last.tenant].logs) = 2
    /\ Len(databases[last.tenant].habits) = 1

\* C3 (as claimed): after a successful delete(id) the tenant's store holds neither
\* the habit nor any log row whose habit_id is id.
C3_DeleteRemovesLogs ==
    (last.op = "delete" /\ last.status = 200) =>
        /\ ~HabitExists(databases[last.tenant], last.arg.id)
        /\ \A l \in Rows(databases[last.tenant].logs) : l.habit_id # last.arg.id

\* C6: create with a non-empty name succeeds and inserts exactly one habit, whose
\* order_position is 0 when the tenant had no habits and otherwise one more than
\* the largest order_position among the habits it had; the response reports it
\* (the habits are those of the database handle the request works on).
C6_CreateAppendsAtEnd ==
    (last.op = "create" /\ TruthyText(last.arg.name)) =>
        LET before == handle.before
            after == handle.after
            added == Rows(after.habits) \ Rows(before.habits)
            expected == IF before.habits = <<>> THEN 0
                        ELSE Max({h.order_position : h \in Rows(before.habits)}) + 1
        IN  /\ last.status = 200
            /\ Len(after.habits) = Len(before.habits) + 1
            /\ Rows(before.habits) \subseteq Rows(after.habits)
            /\ \A h \in added :
                  /\ h.order_position = expected
                  /\ h.id = last.body.id
                  /\ h.name = last.arg.name
            /\ last.body.order_position = expected

\* a habit was created after a reorder had moved the only other habit to position 1
C6_Witness ==
    /\ last.op = "create" /\ last.status = 200
    /\ Len(handle.before.habits) = 1
    /\ last.body.order_position = 2

\* C10: list() returns every habit of the tenant exactly once, by order_position
\* ascending, and habits of equal order_position by created_at descending.
C10_ListIsOrdered ==
    (last.op = "list" /\ last.status = 200) =>
        LET body == last.body
            table == databases[last.tenant].habits
        IN  /\ Len(body) = Len(table)
            /\ Rows(body) = Rows(table)
            /\ \A i, j \in 1..Len(body) :
                  i < j =>
                      \/ body[i].order_position < body[j].order_position
                      \/ /\ body[i].order_position = body[j].order_position
                         /\ body[i].created_at >= body[j].created_at

\* two habits share an order_position and the one created later is listed first
C10_Witness ==
    /\ last.op = "list" /\ last.status = 200
    /\ Len(last.body) = 2
    /\ last.body[1].order_position = last.body[2].order_position
    /\ last.body[1].created_at > last.body[2].created_at
    /\ last.body[1].id > last.body[2].id

\* C5: when toggleLog is served twice in a row for the same (habit, date) whose
\* row already existed, the first returns the flipped value, the second the
\* original one, and the store (in memory and on disk) is again what it was
\* before the first.
C5_DoubleToggleRestores ==
    [][\A d \in LogDates :
          (/\ last.op = "toggle" /\ last.status = 200
           /\ last.tenant = TenantA
           /\ last.arg = [habit_id |-> 1, date |-> d]
           /\ LogsAt(PreDb(TenantA), 1, d) # {}
           /\ Toggle(TenantA, 1, d))
          => /\ databases' = pre.databases
             /\ files' = pre.files
             /\ last'.status = 200
             /\ \A o \in LogsAt(PreDb(TenantA), 1, d) :
                   /\ last.body.completed = (IF o.completed = 1 THEN 0 ELSE 1)
                   /\ last'.body.completed = o.completed]_vars

\* a row that existed with completed = 0 has been toggled back to it
C5_Witness ==
    /\ last.op = "toggle" /\ last.status = 200
    /\ last.body.completed = 0
    /\ \E o \in LogsAt(PreDb(last.tenant), last.arg.habit_id, last.arg.date) : o.completed = 1
    /\ \E l \in Rows(databases[last.tenant].logs) : l.id = 1 /\ l.completed = 0 /\ l.date # last.arg.date

\* C9: get(id) of an existing habit returns the habit and exactly the
\* min(90, n) rows of greatest date among its n log rows, in descending date
\* order; get(id) of an absent id answers 404 and returns no habit.
C9_GetReturnsRecentLogs ==
    (last.op = "get") =>
        LET db == databases[last.tenant]
            mine == {l \in Rows(db.logs) : l.habit_id = last.arg.id}
        IN  IF HabitExists(db, last.arg.id)
            THEN /\ last.status = 200
                 /\ HabitRow(last.body) \in Rows(db.habits)
                 /\ last.body.id = last.arg.id
                 /\ Rows(last.body.logs) \subseteq mine
                 /\ Len(last.body.logs) =
                        (IF Cardinality(mine) < 90 THEN Cardinality(mine) ELSE 90)
                 /\ \A i, j \in 1..Len(last.body.logs) :
                        i < j => StrLess(last.body.logs[j].date, last.body.logs[i].date)
                 /\ \A l \in mine \ Rows(last.body.logs), r \in Rows(last.body.logs) :
                        StrLess(l.date, r.date)
            ELSE /\ last.status = 404
                 /\ last.body = [error |-> "Habit not found"]

\* a habit with more than 90 rows, inserted oldest first, was fetched
C9_Witness ==
    /\ last.op = "get" /\ last.status = 200
    /\ Len(last.body.logs) = 90
    /\ Len(databases[last.tenant].logs) > 90
    /\ last.body.logs[1].id > last.body.logs[2].id

\* C4: calculateCurrentStreak(logs) is the largest k in 0..90 such that each of
\* the k days ending today has an entry in logs with a truthy completed: 0 when
\* logs is empty or today is not completed, 90 when 90 or more days in a row are.
C4_StreakIsRunEndingToday ==
    (last.op = "streak") =>
        LET logs == last.arg.logs
            doneDays == {j \in 0..89 :
                            \E i \in 1..Len(logs) :
                                logs[i].date = DateString(today, j) /\ logs[i].completed # 0}
            runs == {k \in 0..90 : 0..(k - 1) \subseteq doneDays}
        IN  /\ last.body = Max(runs)
            /\ (logs = <<>> \/ 0 \notin doneDays) => last.body = 0

\* 91 days in a row are completed and the streak is 90
C4_Witness ==
    /\ last.op = "streak"
    /\ Len(last.arg.logs) > 90
    /\ \A i \in 1..Len(last.arg.logs) : last.arg.logs[i].completed = 1
    /\ last.body = 90

\* C7: a tenant string is accepted iff it is non-empty and made of letters, digits,
\* hyphens and underscores only; an accepted string is the key of the storage
\* handle, unchanged; a rejected one is answered with an error by the API (and
\* with the static page by GET /) and no storage handle or file is created.
C7_TenantAcceptedIffClean ==
    (last.op \in {"list", "ssr"}) =>
        LET t == last.tenant
            clean == /\ t # <<>>
                     /\ \A i \in 1..Len(t) :
                           t[i] \in LowerLetters \cup UpperLetters \cup DigitChars \cup {"-", "_"}
        IN  IF clean
            THEN /\ last.status = 200
                 /\ last.op = "ssr" => last.body.rendered
                 /\ DOMAIN databases = DOMAIN pre.databases \cup {t}
                 /\ DOMAIN files = DOMAIN pre.files \cup {t \o <<".", "d", "b">>}
            ELSE /\ last.op = "list" => (last.status = 400 /\ DOMAIN last.body = {"error"})
                 /\ last.op = "ssr" => ~last.body.rendered
                 /\ databases = pre.databases
                 /\ files = pre.files

\* a new tenant with an underscore was accepted beside a cached one
C7_Witness ==
    /\ last.op = "list" /\ last.status = 200
    /\ last.tenant = <<"Z", "_">>
    /\ DOMAIN databases = {TenantA, <<"Z", "_">>}

\* the habits and the logs a response carries
HabitsIn(resp) ==
    IF resp.op = "list" /\ resp.status = 200 THEN Rows(resp.body)
    ELSE IF resp.op = "get" /\ resp.status = 200 THEN {HabitRow(resp.body)}
    ELSE IF resp.op = "ssr" THEN {HabitRow(resp.body.habits[i]) : i \in 1..Len(resp.body.habits)}
    ELSE {}

LogsIn(resp) ==
    IF resp.op = "get" /\ resp.status = 200 THEN Rows(resp.body.logs)
    ELSE IF resp.op = "logs" /\ resp.status = 200
    THEN {[id |-> resp.body[i].id, habit_id |-> resp.body[i].habit_id,
           date |-> resp.body[i].date, completed |-> resp.body[i].completed,
           notes |-> resp.body[i].notes] : i \in 1..Len(resp.body)}
    ELSE IF resp.op = "ssr"
    THEN UNION {Rows(resp.body.habits[i].logs) : i \in 1..Len(resp.body.habits)}
    ELSE {}

\* C8: a request served for tenant A leaves the habits and habit_logs of every
\* other tenant, in memory and on disk, as they were, and its response carries
\* only rows that A's tables held when it arrived.
C8_TenantIsolation ==
    (last.op # "none") =>
        LET A == last.tenant
            path == A \o <<".", "d", "b">>
            mine == IF A \in DOMAIN pre.databases THEN pre.databases[A]
                    ELSE IF path \in DOMAIN pre.files THEN pre.files[path]
                    ELSE EmptyDB
        IN  /\ \A B \in (DOMAIN databases \cup DOMAIN pre.databases) \ {A} :
                  /\ B \in DOMAIN databases /\ B \in DOMAIN pre.databases
                  /\ databases[B] = pre.databases[B]
            /\ \A p \in (DOMAIN files \cup DOMAIN pre.files) \ {path} :
                  /\ p \in DOMAIN files /\ p \in DOMAIN pre.files
                  /\ files[p] = pre.files[p]
            /\ HabitsIn(last) \subseteq Rows(mine.habits)
            /\ LogsIn(last) \subseteq Rows(mine.logs)

\* tenant a deleted its habit while tenant b_ held a renamed habit and a log
C8_Witness ==
    /\ last.op = "delete" /\ last.status = 200 /\ last.tenant = TenantA
    /\ PreDb(TenantA).habits # <<>>
    /\ TenantB \in DOMAIN databases
    /\ \E h \in Rows(databases[TenantB].habits) : h.name = "Run"
    /\ databases[TenantB].logs # <<>>
    /\ files[TenantB \o <<".", "d", "b">>] = databases[TenantB]

\* the number of days of month m of year y
DaysInMonth(y, m) ==
    IF m = 2 THEN (IF y % 4 = 0 /\ (y % 100 # 0 \/ y % 400 = 0) THEN 29 ELSE 28)
    ELSE IF m \in {4, 6, 9, 11} THEN 30 ELSE 31

\* the calendar day after the calendar day c
NextCivil(c) ==
    IF c.date < DaysInMonth(c.year, c.month) THEN [c EXCEPT !.date = @ + 1]
    ELSE IF c.month < 12 THEN [year |-> c.year, month |-> c.month + 1, date |-> 1]
    ELSE [year |-> c.year + 1, month |-> 1, date |-> 1]

\* C11: at a fixed instant, getGridDates returns exactly W dates (3 on the mobile
\* grid, 7 on the desktop and SSR grids); the calendar day of each entry is the
\* day after that of the entry before it, and the last entry's is today.
C11_GridDatesAreConsecutive ==
    (last.op \in {"mobile", "desktop", "ssr"}) =>
        LET dates == last.body
            W == IF last.op = "mobile" THEN 3 ELSE 7
        IN  /\ Len(dates) = W
            /\ \A i \in 1..(Len(dates) - 1) :
                  CivilFromDays(dates[i + 1].day) = NextCivil(CivilFromDays(dates[i].day))
            /\ CivilFromDays(dates[Len(dates)].day) = CivilFromDays(last.arg.day)
            /\ dates[Len(dates)].day = today

\* the desktop grid built on 2024-03-01 starts in February and crosses the 29th
C11_Witness ==
    /\ last.op = "desktop"
    /\ formatDate(last.body[1]) = <<"2", "0", "2", "4", "-", "0", "2", "-", "2", "4">>
    /\ formatDate(last.body[7]) = <<"2", "0", "2", "4", "-", "0", "3", "-", "0", "1">>

\* C12: for a non-empty habit list each renderer draws one row per habit, in the
\* given order, and in each row one cell per date of the grid's date sequence;
\* a cell is completed iff the habit's logs hold an entry of that date with a
\* truthy completed, and only the cell of the last date is marked today.
C12_GridShowsLogs ==
    (last.op \in {"mobile", "desktop", "ssr"} /\ last.arg # <<>>) =>
        LET habits == last.arg
            rows == last.body.rows
            W == IF last.op = "mobile" THEN 3 ELSE 7
        IN  /\ ~last.body.empty
            /\ Len(rows) = Len(habits)
            /\ \A i \in 1..Len(rows) :
                  /\ rows[i].habit_id = habits[i].id
                  /\ Len(rows[i].cells) = W
                  /\ \A j \in 1..W :
                        LET cell == rows[i].cells[j]
                        IN  /\ cell.habit_id = habits[i].id
                            /\ cell.date = DateString(today, W - j)
                            /\ cell.today = (j = W)
                            /\ cell.completed =
                                   (\E k \in 1..Len(habits[i].logs) :
                                       /\ habits[i].logs[k].date = cell.date
                                       /\ habits[i].logs[k].completed = 1)

\* the desktop grid of two habits: the first has an uncompleted entry today and a
\* completed one six days ago, the second has no logs
C12_Witness ==
    /\ last.op = "desktop"
    /\ Len(last.body.rows) = 2
    /\ last.arg[2].logs = <<>>
    /\ \E k \in 1..Len(last.arg[1].logs) :
          last.arg[1].logs[k].date = DateString(today, 0) /\ last.arg[1].logs[k].completed = 0
    /\ last.body.rows[1].cells[1].completed
    /\ ~last.body.rows[1].cells[7].completed

\* the entries of habitOrders that have no order_position: binding one fails
FailingEntries(habitOrders) ==
    {k \in 1..Len(habitOrders) : habitOrders[k].order_position = <<>>}

\* the entries before the first failing one
AppliedPrefix(habitOrders) ==
    LET first == CHOOSE k \in FailingEntries(habitOrders) :
                     \A j \in FailingEntries(habitOrders) : k <= j
    IN  SubSeq(habitOrders, 1, first - 1)

\* habit h after the entries of prefix were applied in order
Repositioned(h, prefix) ==
    LET mine == {k \in 1..Len(prefix) : prefix[k].id = h.id}
    IN  IF mine = {} THEN h
        ELSE [h EXCEPT !.order_position = prefix[Max(mine)].order_position[1]]

\* C13: a reorder one of whose entries fails reports failure; the database handle
\* it worked on holds the habits with the entries before the failing one applied
\* and no entry after it applied, and so does the answer of the list() that
\* follows it on that handle.
C13_ReorderKeepsEarlierUpdates ==
    [][(/\ last.op = "reorder"
        /\ FailingEntries(last.arg.habitOrders) # {})
       => /\ last.status = 400
          /\ Rows(handle.after.habits) =
                 {Repositioned(h, AppliedPrefix(last.arg.habitOrders)) :
                      h \in Rows(handle.before.habits)}
          /\ (handle.cached /\ last'.op = "list" /\ last'.tenant = last.tenant) =>
                /\ last'.status = 200
                /\ Rows(last'.body) = Rows(handle.after.habits)]_vars

\* a reorder moved habit 1 to position 5 and then failed on its second entry; the
\* table in memory has the move, the saved file does not
C13_Witness ==
    /\ last.op = "reorder" /\ last.status = 400
    /\ Len(last.arg.habitOrders) = 2
    /\ last.arg.habitOrders[1] = [id |-> 1, order_position |-> <<5>>]
    /\ handle.cached
    /\ \E h \in Rows(databases[TenantA].habits) : h.id = 1 /\ h.order_position = 5
    /\ \E h \in Rows(files[FilePath(TenantA)].habits) : h.id = 1 /\ h.order_position = 0

\* C14: update(id, name, description) with a name reports success; when no habit
\* has the id, every habit and every log row is left as it was; otherwise only
\* that habit's name and description are overwritten, and its id, created_at and
\* order_position, the other habits and all log rows are left as they were (the
\* rows are those of the database handle the request works on).
C14_UpdateOverwritesOnlyText ==
    (last.op = "update" /\ last.arg.name # Undefined) =>
        LET before == handle.before
            after == handle.after
            description == IF last.arg.description \in {"", NULL, Undefined} THEN ""
                           ELSE last.arg.description
        IN  /\ last.status = 200
            /\ last.body = [success |-> TRUE]
            /\ after.logs = before.logs
            /\ Len(after.habits) = Len(before.habits)
            /\ \A i \in 1..Len(before.habits) :
                  after.habits[i] =
                      IF before.habits[i].id = last.arg.id
                      THEN [id |-> before.habits[i].id, name |-> last.arg.name,
                            description |-> description,
                            created_at |-> before.habits[i].created_at,
                            order_position |-> before.habits[i].order_position]
                      ELSE before.habits[i]

\* an update of an id that no habit has succeeded on a tenant with a habit and a log
C14_Witness ==
    /\ last.op = "update" /\ last.status = 200
    /\ ~HabitExists(handle.after, last.arg.id)
    /\ handle.after.habits # <<>>
    /\ handle.after.habits[1].description = "daily"
    /\ handle.after.logs # <<>>

\* C15 (as claimed): every stored habit has a non-empty name.
C15_NamesAreNonEmpty ==
    \A t \in DOMAIN databases : \A h \in Rows(databases[t].habits) :
        h.name \notin {"", NULL, Undefined}

\* C16 (as claimed): every log row's habit_id is the id of a habit of the tenant,
\* and a toggle for an id that no habit has is answered with an error and inserts
\* no row.
C16_LogsReferenceHabits ==
    /\ \A t \in DOMAIN databases : \A l \in Rows(databases[t].logs) :
          HabitExists(databases[t], l.habit_id)
    /\ (last.op = "toggle" /\ ~HabitExists(PreDb(last.tenant), last.arg.habit_id)) =>
          /\ last.status # 200
          /\ databases[last.tenant].logs = PreDb(last.tenant).logs

\* C17 (as claimed): no two habits of a tenant have the same order_position.
C17_OrderPositionsAreUnique ==
    \A t \in DOMAIN databases : \A i, j \in 1..Len(databases[t].habits) :
        databases[t].habits[i].order_position = databases[t].habits[j].order_position
            => i = j

\* the (habit_id, date, completed) triples of a habit_logs table
Triples(db) == {<<l.habit_id, l.date, l.completed>> : l \in Rows(db.logs)}

\* C18: list, get, create, update, reorder, the log-notes update and the
\* date-range log query leave the set of (habit_id, date, completed) triples of
\* the tenant, in the handle the request works on, in the cache and on disk, as
\* it was: only toggleLog changes a completed flag or adds a log row.
C18_OnlyToggleWritesCompletion ==
    (last.op \in {"list", "get", "create", "update", "reorder", "notes", "logs"}
        /\ last.tenant \in DOMAIN databases) =>
        /\ Triples(handle.after) = Triples(handle.before)
        /\ Triples(databases[last.tenant]) = Triples(PreDb(last.tenant))
        /\ Triples(files[last.tenant \o <<".", "d", "b">>]) = Triples(PreDb(last.tenant))

\* the notes of a row that is not completed were updated
C18_Witness ==
    /\ last.op = "notes" /\ last.status = 200
    /\ \E l \in Rows(handle.after.logs) :
          l.id = last.arg.id /\ l.notes = "note" /\ l.completed = 0
    /\ \E l \in Rows(handle.before.logs) : l.id = last.arg.id /\ l.notes = NULL

\* C19 (as claimed): once the redraw that follows a click on a grid cell has
\* finished, the cell of that (habit, date) shows the completion state the toggle
\* endpoint returned.
C19_RedrawShowsToggle ==
    (page.pc = "open" /\ page.clicked # <<>>) =>
        \A i \in 1..Len(page.grid.rows) : \A j \in 1..Len(page.grid.rows[i].cells) :
            LET cell == page.grid.rows[i].cells[j]
            IN  (cell.habit_id = page.clicked.habit_id /\ cell.date = page.clicked.date)
                    => cell.completed = (page.answer.completed = 1)

\* C20 (as claimed): every request that getTenantDB has returned to works on
\* the handle the cache holds for its tenant, also when several requests for a
\* tenant not yet cached were suspended inside getTenantDB together.
C20_OneHandlePerTenant ==
    \A i \in 1..Len(inflight) :
        inflight[i].stage = "route" => inflight[i].cached

\* C21 (as claimed): when a create has reported success, the tenant's file holds
\* the habit the client was told about, in every interleaving of the requests
\* to that tenant.
C21_SuccessIsSaved ==
    (last.op = "create" /\ last.status = 200) =>
        /\ FilePath(last.tenant) \in DOMAIN files
        /\ \E i \in 1..Len(files[FilePath(last.tenant)].habits) :
              /\ files[FilePath(last.tenant)].habits[i].id = last.body.id
              /\ files[FilePath(last.tenant)].habits[i].name = last.body.name

\* C22 (as claimed): the streak computed from the logs that get(id) returns is
\* the number of consecutive completed days ending today among all the stored
\* logs of the habit, capped at 90, whatever dates have been toggled.
C22_LimitKeepsStreak ==
    (last.op = "get" /\ last.status = 200) =>
        LET stored == SelectSeq(databases[last.tenant].logs,
                                LAMBDA l : l.habit_id = last.arg.id)
            doneDays == {j \in 0..89 :
                            \E i \in 1..Len(stored) :
                                stored[i].date = DateString(today, j) /\ stored[i].completed # 0}
            runs == {k \in 0..90 : 0..(k - 1) \subseteq doneDays}
        IN  calculateCurrentStreak(last.body.logs, NewDate) = Max(runs)

\* C23: for the same logs and the same current date the server copy, the shared
\* client copy and the main.js copy of calculateCurrentStreak return the same
\* streak, and their isCompletedOnDate give the same answer for a date.
C23_CopiesAgree ==
    (last.op \in Copies) =>
        \A copy \in Copies :
            last.body = CopyResult(copy, last.arg.logs, last.arg.date, NewDate)

\* main.js was asked about a list with a completed = 0 entry three days ago
C23_Witness ==
    /\ last.op = "main"
    /\ last.body.streak = 3
    /\ ~last.body.completed
    /\ \E i \in 1..Len(last.arg.logs) :
          /\ last.arg.logs[i].date = formatDate(last.arg.date)
          /\ last.arg.logs[i].completed = 0

\* C24 (as claimed): the grid the desktop page draws when it recomputes from the
\* habits of the embedded initial-state data is the grid the server renders for
\* the same habits and the same current date: rows, order, cell dates and
\* completion, streak and the content of the name cell.
C24_ClientGridEqualsServerGrid ==
    (/\ page.pc = "open"
     /\ page.habits # <<>>
     /\ \A i \in 1..Len(page.habits) : "logs" \in DOMAIN page.habits[i]) =>
        page.grid = renderHabitsGridHTML(page.habits, NewDate)

\* C25 (as claimed): every date that getGridDates returns, not only the last
\* one, has its time of day at local midnight.
C25_GridDatesAreMidnight ==
    (last.op \in {"mobile", "desktop", "ssr"}) =>
        \A i \in 1..Len(last.body) : last.body[i].tod = 0

\* C26 (as claimed): once every click handler has finished, whatever the order
\* in which the responses arrived, the grid on display shows for every cell the
\* completion state the server holds.
C26_FinalGridShowsServerState ==
    (page.pc = "open" /\ page.handlers = <<>>) =>
        page.grid = DrawnGrid(FetchedHabits(databases[TenantA], page.habits), page.grid, NewDate)

====
